---- MODULE Spec2Model ----
(***************************************************************************)
(* Model of server/ai-service.py: the AIImageService object (a FAISS       *)
(* IndexFlatIP plus the parallel image_paths list), the two artifacts it   *)
(* persists (image_index.faiss, image_metadata.pkl) and the lifecycle of   *)
(* the processes that construct the service, ingest images, search and     *)
(* exit.  CLIP, EasyOCR and the file system are collaborators: each call   *)
(* to one of them is an input of the action that makes the call.           *)
(***************************************************************************)
EXTENDS Integers, Sequences, FiniteSets, TLC

VARIABLES
    index_file,     \* image_index.faiss on disk: [exists, bytes]
    metadata_file,  \* image_metadata.pkl on disk: [exists, bytes]
    running,        \* TRUE while a process holds an AIImageService
    index,          \* self.index: [d, ntotal, xb]
    image_paths,    \* self.image_paths
    ret,            \* what the last completed call returned and logged
    call,           \* history: the inputs of the last completed call
    peer,           \* a second process on the same artifacts:
                    \* [running, index, image_paths, ret]
    fresh,          \* history: this process's load_index created a new index
    last_saved,     \* history: the store written by the last save, if whole
    faults,         \* history: how many saves have failed so far
    ingested        \* history: identifiers ingested with success, in order,
                    \* kept while no save has failed

vars == <<index_file, metadata_file, running, index, image_paths, ret, call,
          peer, fresh, last_saved, faults, ingested>>

store == <<index, image_paths>>
disk == <<index_file, metadata_file>>

----------------------------------------------------------------------------
(* Bounds and inputs *)

\* Most vectors one process may hold: no embedding is added beyond it.
MaxImages == 2

\* Largest top_k a search is called with.
MaxTopK == 2

\* Most artifact writes that fail in one behaviour.
MaxFaults == 1

\* Dimension of the index the service creates: faiss.IndexFlatIP(512).
D == 512

\* Image paths given to process_image.
Paths == {"a.jpg", "b.jpg"}

\* Search query texts.
Queries == {"cat", "dog"}

\* What CLIP computes for an image or a text: the leading two components,
\* in tenths; the other 510 components are zero.  Inner products are
\* therefore in hundredths.
Features(input) ==
    CASE input = "a.jpg" -> <<10, 0>>
      [] input = "b.jpg" -> <<1, 10>>
      [] input = "cat" -> <<10, 0>>
      [] input = "dog" -> <<8, 6>>

\* What a CLIP encoder does on a call: raise, return the 512 features, or
\* (a collaborator breaking its contract) return an array of another length.
EncoderOutcomes == {"raise", "ok", "short"}

\* The flattened array an encoder call returns.
Encoded(input, outcome) ==
    [ok |-> outcome # "raise",
     dim |-> IF outcome = "ok" THEN D ELSE D - 1,
     vec |-> Features(input)]

\* index.search among vectors of equal inner product: FAISS reports them in
\* the order its heap leaves them in, lowest slot first or highest first.
TieOrders == {"low", "high"}

\* What ocr_reader.readtext leads to: an exception, no confident text, text.
OcrOutcomes == {"raise", "", "SALE"}

\* Where a save's file writes fail: nowhere, on opening an artifact (it is
\* left as it was) or after n rows of it were written (it is left truncated).
SaveFaults ==
    {[at |-> a, n |-> 0] : a \in {"none", "index_open", "metadata_open"}}
      \cup {[at |-> a, n |-> n] : a \in {"index_write", "metadata_write"},
                                  n \in {0, 1}}

----------------------------------------------------------------------------
(* The artifacts and their formats *)

NoFile == [exists |-> FALSE, bytes |-> <<>>]
File(b) == [exists |-> TRUE, bytes |-> b]

\* self.index = None, before load_index and once the process is gone.
NoIndex == [d |-> 0, ntotal |-> 0, xb |-> <<>>]

\* faiss.IndexFlatIP(512)
NewIndex == [d |-> D, ntotal |-> 0, xb |-> <<>>]

\* faiss.write_index: a header row (d, ntotal), then the vectors in order.
write_index(idx) == <<<<idx.d, idx.ntotal>>>> \o idx.xb

\* faiss.read_index raises unless the header and all its vectors are there.
can_read_index(b) ==
    /\ Len(b) >= 1
    /\ Len(b[1]) = 2
    /\ Len(b) = 1 + b[1][2]

read_index(b) == [d |-> b[1][1], ntotal |-> b[1][2], xb |-> Tail(b)]

\* pickle.dump of a list: list opcode, the items, STOP.
pickle_dump(l) == <<"]">> \o l \o <<".">>

\* pickle.load raises on a stream that does not run up to its STOP.
can_pickle_load(b) ==
    /\ Len(b) >= 2
    /\ b[1] = "]"
    /\ b[Len(b)] = "."

pickle_load(b) == SubSeq(b, 2, Len(b) - 1)

Min(a, b) == IF a <= b THEN a ELSE b

\* The first n items of s (all of s when it has fewer).
Prefix(s, n) == SubSeq(s, 1, Min(n, Len(s)))

----------------------------------------------------------------------------
(* load_index and save_index *)

\* A faulty load_index: the metadata artifact is never read back.
load_index_no_metadata(ifile, mfile) ==
    IF ifile.exists /\ mfile.exists
    THEN IF can_read_index(ifile.bytes) /\ can_pickle_load(mfile.bytes)
         THEN [index |-> read_index(ifile.bytes), image_paths |-> <<>>,
               log |-> {"Loaded index"}]
         ELSE [index |-> NewIndex, image_paths |-> <<>>,
               log |-> {"Error loading index"}]
    ELSE [index |-> NewIndex, image_paths |-> <<>>,
          log |-> {"Created new FAISS index"}]

\* A faulty load_index: its handler does not reset the index it has read.
load_index_half_loaded(ifile, mfile) ==
    IF ifile.exists /\ mfile.exists
    THEN IF can_read_index(ifile.bytes)
         THEN IF can_pickle_load(mfile.bytes)
              THEN [index |-> read_index(ifile.bytes),
                    image_paths |-> pickle_load(mfile.bytes),
                    log |-> {"Loaded index"}]
              ELSE [index |-> read_index(ifile.bytes), image_paths |-> <<>>,
                    log |-> {"Error loading index"}]
         ELSE [index |-> NewIndex, image_paths |-> <<>>,
               log |-> {"Error loading index"}]
    ELSE [index |-> NewIndex, image_paths |-> <<>>,
          log |-> {"Created new FAISS index"}]

\* load_index: the store and the stderr line it leaves.
load_index(ifile, mfile) ==
    IF ifile.exists /\ mfile.exists
    THEN IF can_read_index(ifile.bytes) /\ can_pickle_load(mfile.bytes)
         THEN [index |-> read_index(ifile.bytes),
               image_paths |-> pickle_load(mfile.bytes),
               log |-> {"Loaded index"}]
         ELSE [index |-> NewIndex, image_paths |-> <<>>,
               log |-> {"Error loading index"}]
    ELSE [index |-> NewIndex, image_paths |-> <<>>,
          log |-> {"Created new FAISS index"}]

\* A save fault that can happen while writing these bytes.
FaultApplies(idx, paths, fault) ==
    /\ fault.at = "index_write" => fault.n < Len(write_index(idx))
    /\ fault.at = "metadata_write" => fault.n < Len(pickle_dump(paths))

\* A faulty save_index: a save without error never writes the metadata.
save_index_no_metadata(idx, paths, ifile, mfile, fault) ==
    IF fault.at = "index_open"
    THEN [index_file |-> ifile, metadata_file |-> mfile,
          log |-> {"Error saving index"}]
    ELSE IF fault.at = "index_write"
    THEN [index_file |-> File(Prefix(write_index(idx), fault.n)),
          metadata_file |-> mfile,
          log |-> {"Error saving index"}]
    ELSE IF fault.at = "metadata_open"
    THEN [index_file |-> File(write_index(idx)),
          metadata_file |-> mfile,
          log |-> {"Error saving index"}]
    ELSE IF fault.at = "metadata_write"
    THEN [index_file |-> File(write_index(idx)),
          metadata_file |-> File(Prefix(pickle_dump(paths), fault.n)),
          log |-> {"Error saving index"}]
    ELSE [index_file |-> File(write_index(idx)),
          metadata_file |-> mfile,
          log |-> {"Saved index"}]

\* save_index: the two artifacts and the stderr line it leaves.  The index
\* artifact is written first; an exception at any point ends the save.
save_index(idx, paths, ifile, mfile, fault) ==
    IF fault.at = "index_open"
    THEN [index_file |-> ifile, metadata_file |-> mfile,
          log |-> {"Error saving index"}]
    ELSE IF fault.at = "index_write"
    THEN [index_file |-> File(Prefix(write_index(idx), fault.n)),
          metadata_file |-> mfile,
          log |-> {"Error saving index"}]
    ELSE IF fault.at = "metadata_open"
    THEN [index_file |-> File(write_index(idx)),
          metadata_file |-> mfile,
          log |-> {"Error saving index"}]
    ELSE IF fault.at = "metadata_write"
    THEN [index_file |-> File(write_index(idx)),
          metadata_file |-> File(Prefix(pickle_dump(paths), fault.n)),
          log |-> {"Error saving index"}]
    ELSE [index_file |-> File(write_index(idx)),
          metadata_file |-> File(pickle_dump(paths)),
          log |-> {"Saved index"}]

----------------------------------------------------------------------------
(* The index *)

\* A faulty add: a row of any length is taken.
can_add_any_length(idx, emb) == TRUE

\* index.add of one row: faiss asserts the row length against index.d.
can_add(idx, emb) == emb.dim = idx.d

\* A faulty add: the new row goes in front of the stored ones.
index_add_front(idx, emb) ==
    [d |-> idx.d, ntotal |-> idx.ntotal + 1, xb |-> <<emb.vec>> \o idx.xb]

index_add(idx, emb) ==
    [d |-> idx.d, ntotal |-> idx.ntotal + 1, xb |-> Append(idx.xb, emb.vec)]

\* Inner product, in hundredths.
InnerProduct(u, v) == u[1] * v[1] + u[2] * v[2]

\* A faulty ranking: the smallest inner product comes first.
WorstSlot(idx, q, S, ties) ==
    CHOOSE i \in S : \A j \in S :
        \/ InnerProduct(idx.xb[i + 1], q) < InnerProduct(idx.xb[j + 1], q)
        \/ /\ InnerProduct(idx.xb[i + 1], q) = InnerProduct(idx.xb[j + 1], q)
           /\ IF ties = "low" THEN i <= j ELSE i >= j

\* The slot (from 0) that ranks first among S: largest inner product, and
\* among equals the lowest or the highest slot.
BestSlot(idx, q, S, ties) ==
    CHOOSE i \in S : \A j \in S :
        \/ InnerProduct(idx.xb[i + 1], q) > InnerProduct(idx.xb[j + 1], q)
        \/ /\ InnerProduct(idx.xb[i + 1], q) = InnerProduct(idx.xb[j + 1], q)
           /\ IF ties = "low" THEN i <= j ELSE i >= j

RECURSIVE Ranked(_, _, _, _, _)
Ranked(idx, q, S, k, ties) ==
    IF k = 0 \/ S = {} THEN <<>>
    ELSE LET b == BestSlot(idx, q, S, ties)
         IN <<[similarity |-> InnerProduct(idx.xb[b + 1], q), idx |-> b]>>
              \o Ranked(idx, q, S \ {b}, k - 1, ties)

\* index.search(query_vector, k): k (similarity, idx) pairs, best first.
index_search(idx, q, k, ties) == Ranked(idx, q, 0..(idx.ntotal - 1), k, ties)

----------------------------------------------------------------------------
(* The service's operations, as functions of the state they read *)

None == "None"

Returned(op, path, success, error, ocr_text, results, log) ==
    [op |-> op, filepath |-> path, success |-> success, error |-> error,
     ocr_text |-> ocr_text, results |-> results, raised |-> FALSE,
     log |-> log]

\* A faulty extract_ocr_text: its handler returns the error as the text.
extract_ocr_text_leaks_error(ocr) == ocr

\* extract_ocr_text: the joined text, "" when readtext raises.
extract_ocr_text(ocr) == IF ocr = "raise" THEN "" ELSE ocr

ocr_log(ocr) == IF ocr = "raise" THEN {"Error extracting OCR"} ELSE {}

\* A faulty handler: the path was appended before the failure.
failed_ingest_after_append(idx, paths, ifile, mfile, path, error, log) ==
    [index |-> idx, image_paths |-> Append(paths, path),
     index_file |-> ifile, metadata_file |-> mfile,
     ret |-> Returned("process_image", path, FALSE, error, None, <<>>, log)]

\* The handler of process_image (its except branch): nothing was stored, the
\* dictionary carries the path and the error.
failed_ingest(idx, paths, ifile, mfile, path, error, log) ==
    [index |-> idx, image_paths |-> paths,
     index_file |-> ifile, metadata_file |-> mfile,
     ret |-> Returned("process_image", path, FALSE, error, None, <<>>, log)]

\* A faulty process_image: save_index lets its exception through, and the
\* handler of process_image reports the ingest as failed.
stored_ingest_save_raises(idx, paths, ifile, mfile, path, emb, ocr, fault) ==
    IF ~can_add(idx, emb)
    THEN [index |-> idx, image_paths |-> paths,
          index_file |-> ifile, metadata_file |-> mfile,
          ret |-> Returned("process_image", path, FALSE, "add failed", None,
                           <<>>, ocr_log(ocr))]
    ELSE LET idx2 == index_add(idx, emb)
             paths2 == Append(paths, path)
             saved == save_index(idx2, paths2, ifile, mfile, fault)
             text == extract_ocr_text(ocr)
             failed == "Error saving index" \in saved.log
         IN [index |-> idx2, image_paths |-> paths2,
             index_file |-> saved.index_file,
             metadata_file |-> saved.metadata_file,
             ret |-> Returned("process_image", path, ~failed,
                              IF failed THEN "save failed" ELSE "",
                              IF text # "" /\ ~failed THEN text ELSE None,
                              <<>>, ocr_log(ocr) \cup saved.log)]

\* process_image once it has the embedding and the text: add, append, save,
\* return.  index.add raises before it stores anything.
stored_ingest(idx, paths, ifile, mfile, path, emb, ocr, fault) ==
    IF ~can_add(idx, emb)
    THEN failed_ingest(idx, paths, ifile, mfile, path, "add failed",
                       ocr_log(ocr))
    ELSE LET idx2 == index_add(idx, emb)
             paths2 == Append(paths, path)
             saved == save_index(idx2, paths2, ifile, mfile, fault)
             text == extract_ocr_text(ocr)
         IN [index |-> idx2, image_paths |-> paths2,
             index_file |-> saved.index_file,
             metadata_file |-> saved.metadata_file,
             ret |-> Returned("process_image", path, TRUE, "",
                              IF text # "" THEN text ELSE None, <<>>,
                              ocr_log(ocr) \cup saved.log)]

\* process_image: the store, the artifacts and the returned dictionary.
\* extract_clip_embedding logs and re-raises, and the text is not extracted.
process_image(idx, paths, ifile, mfile, path, emb, ocr, fault) ==
    IF ~emb.ok
    THEN failed_ingest(idx, paths, ifile, mfile, path, "embedding failed",
                       {"Error extracting CLIP embedding"})
    ELSE stored_ingest(idx, paths, ifile, mfile, path, emb, ocr, fault)

\* The threshold of the final filter, 0.1, in hundredths.
Threshold == 10

\* A faulty results loop: the rank counts the entries kept so far.
Results_renumbered(hits, paths, i) ==
    LET kept == {j \in 1..Len(hits) : hits[j].idx < Len(paths)}
        entry(j) == [filepath |-> paths[hits[j].idx + 1],
                     similarity |-> hits[j].similarity,
                     rank |-> Cardinality({m \in kept : m <= j})]
        RECURSIVE from(_)
        from(j) == IF j > Len(hits) THEN <<>>
                   ELSE (IF j \in kept THEN <<entry(j)>> ELSE <<>>)
                        \o from(j + 1)
    IN from(i)

\* results: one entry per search hit whose idx has an identifier, ranked by
\* its position among the hits.
RECURSIVE Results(_, _, _)
Results(hits, paths, i) ==
    IF i > Len(hits) THEN <<>>
    ELSE (IF hits[i].idx < Len(paths)
          THEN <<[filepath |-> paths[hits[i].idx + 1],
                  similarity |-> hits[i].similarity,
                  rank |-> i]>>
          ELSE <<>>)
         \o Results(hits, paths, i + 1)

\* A faulty filter: a similarity of exactly 0.1 passes.
Filtered_inclusive(results) ==
    SelectSeq(results, LAMBDA r : r.similarity >= Threshold)

Filtered(results) == SelectSeq(results, LAMBDA r : r.similarity > Threshold)

\* A faulty search_images: the query is encoded before the index is looked at.
search_images_encode_first(idx, paths, query, top_k, enc, ties) ==
    IF ~enc.ok
    THEN Returned("search", query, TRUE, "", None, <<>>,
                  {"Error encoding text query", "Error searching images"})
    ELSE IF idx.ntotal = 0
    THEN Returned("search", query, TRUE, "", None, <<>>,
                  {"No images in index"})
    ELSE IF enc.dim # idx.d
    THEN Returned("search", query, TRUE, "", None, <<>>,
                  {"Error searching images"})
    ELSE Returned("search", query, TRUE, "", None,
                  Filtered(Results(
                      index_search(idx, enc.vec, Min(top_k, idx.ntotal),
                                   ties),
                      paths, 1)),
                  {})

\* search_images: the list it returns and what it logs.
search_images(idx, paths, query, top_k, enc, ties) ==
    IF idx.ntotal = 0
    THEN Returned("search", query, TRUE, "", None, <<>>,
                  {"No images in index"})
    ELSE IF ~enc.ok
    THEN \* encode_text_query logs and re-raises; the handler returns []
         Returned("search", query, TRUE, "", None, <<>>,
                  {"Error encoding text query", "Error searching images"})
    ELSE IF enc.dim # idx.d
    THEN \* index.search raises on a query of another length
         Returned("search", query, TRUE, "", None, <<>>,
                  {"Error searching images"})
    ELSE Returned("search", query, TRUE, "", None,
                  Filtered(Results(
                      index_search(idx, enc.vec, Min(top_k, idx.ntotal),
                                   ties),
                      paths, 1)),
                  {})

----------------------------------------------------------------------------
(* The state machine *)

NoStore == [whole |-> FALSE, index |-> NoIndex, image_paths |-> <<>>]

\* The inputs of a call: what the encoder did, and top_k.
Called(enc, top_k) == [enc |-> enc, top_k |-> top_k]
NoCall == Called("", 0)

\* A process that is not running, and one that holds a service.
NoPeer == [running |-> FALSE, index |-> NoIndex, image_paths |-> <<>>,
           ret |-> Returned("none", "", TRUE, "", None, <<>>, {})]
Process(idx, paths, r) ==
    [running |-> TRUE, index |-> idx, image_paths |-> paths, ret |-> r]

Init ==
    /\ index_file = NoFile
    /\ metadata_file = NoFile
    /\ running = FALSE
    /\ index = NoIndex
    /\ image_paths = <<>>
    /\ ret = Returned("none", "", TRUE, "", None, <<>>, {})
    /\ call = NoCall
    /\ peer = NoPeer
    /\ fresh = FALSE
    /\ last_saved = NoStore
    /\ faults = 0
    /\ ingested = <<>>

\* A faulty constructor: a newly created index is written out at once.
Start_writes_new_index ==
    /\ ~running
    /\ LET l == load_index(index_file, metadata_file)
       IN /\ index' = l.index
          /\ image_paths' = l.image_paths
          /\ ret' = Returned("load_index", "", TRUE, "", None, <<>>, l.log)
          /\ fresh' = (l.log # {"Loaded index"})
          /\ index_file' = IF l.log = {"Loaded index"} THEN index_file
                           ELSE File(write_index(l.index))
    /\ running' = TRUE
    /\ call' = NoCall
    /\ UNCHANGED <<metadata_file, peer, last_saved, faults, ingested>>

\* A process starts and constructs the service: __init__ runs load_index.
Start ==
    /\ ~running
    /\ LET l == load_index(index_file, metadata_file)
       IN /\ index' = l.index
          /\ image_paths' = l.image_paths
          /\ ret' = Returned("load_index", "", TRUE, "", None, <<>>, l.log)
          /\ fresh' = (l.log # {"Loaded index"})
    /\ running' = TRUE
    /\ call' = NoCall
    /\ UNCHANGED <<index_file, metadata_file, peer, last_saved, faults,
                   ingested>>

\* The outcome of a call that is not made is not an input: the text is not
\* extracted once the embedding raised, nothing is saved unless it was added.
NoIdleInput(emb, ocr, fault) ==
    /\ emb = "raise" => ocr = ""
    /\ emb # "ok" => fault.at = "none"

\* service.process_image(path)
ProcessImage(path, emb, ocr, fault) ==
    /\ running
    /\ NoIdleInput(emb, ocr, fault)
    /\ index.ntotal < MaxImages \/ emb # "ok"
    /\ faults < MaxFaults \/ fault.at = "none"
    /\ LET p == process_image(index, image_paths, index_file, metadata_file,
                              path, Encoded(path, emb), ocr, fault)
           failed == "Error saving index" \in p.ret.log
       IN /\ FaultApplies(p.index, p.image_paths, fault)
          /\ index' = p.index
          /\ image_paths' = p.image_paths
          /\ index_file' = p.index_file
          /\ metadata_file' = p.metadata_file
          /\ ret' = p.ret
          /\ call' = Called(emb, 0)
          /\ last_saved' =
                IF "Saved index" \in p.ret.log
                THEN [whole |-> TRUE, index |-> p.index,
                      image_paths |-> p.image_paths]
                ELSE IF <<p.index_file, p.metadata_file>> = disk
                THEN last_saved
                ELSE NoStore
          /\ faults' = IF failed THEN faults + 1 ELSE faults
          /\ ingested' = IF faults > 0 \/ failed THEN <<>>
                         ELSE IF p.ret.success THEN Append(ingested, path)
                         ELSE ingested
    /\ UNCHANGED <<running, fresh, peer>>

\* service.search_images(query, top_k)
SearchImages(query, top_k, enc, ties) ==
    /\ running
    /\ ret' = search_images(index, image_paths, query, top_k,
                           Encoded(query, enc), ties)
    /\ call' = Called(enc, top_k)
    /\ UNCHANGED <<index_file, metadata_file, running, index, image_paths,
                   peer, fresh, last_saved, faults, ingested>>

\* The process ends; the artifacts stay.
Exit ==
    /\ running
    /\ running' = FALSE
    /\ index' = NoIndex
    /\ image_paths' = <<>>
    /\ ret' = Returned("exit", "", TRUE, "", None, <<>>, {})
    /\ call' = NoCall
    /\ fresh' = FALSE
    /\ UNCHANGED <<index_file, metadata_file, peer, last_saved, faults,
                   ingested>>

Next ==
    \/ Start
    \/ \E path \in Paths, emb \in EncoderOutcomes, ocr \in OcrOutcomes,
          fault \in SaveFaults : ProcessImage(path, emb, ocr, fault)
    \/ \E query \in Queries, top_k \in 1..MaxTopK, enc \in EncoderOutcomes,
          ties \in TieOrders : SearchImages(query, top_k, enc, ties)
    \/ Exit

Spec == Init /\ [][Next]_vars

----------------------------------------------------------------------------
(* Two processes on the same artifacts.  Nothing in the service locks the  *)
(* artifacts, so the commands of two processes interleave call by call.    *)

NoFault == [at |-> "none", n |-> 0]

\* The second process starts and constructs its service.
PeerStart ==
    /\ ~peer.running
    /\ LET l == load_index(index_file, metadata_file)
       IN peer' = Process(l.index, l.image_paths,
                          Returned("load_index", "", TRUE, "", None, <<>>,
                                   l.log))
    /\ UNCHANGED <<index_file, metadata_file, running, index, image_paths,
                   ret, call, fresh, last_saved, faults, ingested>>

\* The second process ingests an image; its collaborators and writes work.
PeerProcessImage(path) ==
    /\ peer.running
    /\ peer.index.ntotal < MaxImages
    /\ LET p == process_image(peer.index, peer.image_paths, index_file,
                              metadata_file, path, Encoded(path, "ok"), "",
                              NoFault)
       IN /\ peer' = Process(p.index, p.image_paths, p.ret)
          /\ index_file' = p.index_file
          /\ metadata_file' = p.metadata_file
          /\ last_saved' = [whole |-> TRUE, index |-> p.index,
                            image_paths |-> p.image_paths]
          /\ ingested' = IF faults > 0 THEN <<>> ELSE Append(ingested, path)
    /\ UNCHANGED <<running, index, image_paths, ret, call, fresh, faults>>

\* The second process ends.
PeerExit ==
    /\ peer.running
    /\ peer' = NoPeer
    /\ UNCHANGED <<index_file, metadata_file, running, index, image_paths,
                   ret, call, fresh, last_saved, faults, ingested>>

\* Two ingest commands whose collaborators and writes work, in any overlap.
OverlapNext ==
    \/ Start
    \/ \E path \in Paths : ProcessImage(path, "ok", "", NoFault)
    \/ Exit
    \/ PeerStart
    \/ \E path \in Paths : PeerProcessImage(path)
    \/ PeerExit

SpecOverlap == Init /\ [][OverlapNext]_vars

----------------------------------------------------------------------------
(* Properties *)

\* The store a process would hold if it started on the artifacts as they are.
OnDisk == load_index(index_file, metadata_file)

\* Both artifacts are there and both parse.
BothParse ==
    /\ index_file.exists /\ metadata_file.exists
    /\ can_read_index(index_file.bytes)
    /\ can_pickle_load(metadata_file.bytes)

Loaded == ret.op = "load_index"
Ingest == ret.op = "process_image"

\* C1: in a process whose load_index created a new, empty index, after any
\* sequence of process_image calls (succeeding or failing) the index holds as
\* many vectors as image_paths holds paths, and the i-th vector is the
\* embedding of the i-th path.
C1_AlignedFromFresh ==
    (running /\ fresh) =>
        /\ index.ntotal = Len(image_paths)
        /\ Len(index.xb) = Len(image_paths)
        /\ \A i \in 1..Len(image_paths) :
               index.xb[i] = Features(image_paths[i])

\* Two different images were ingested into a fresh store and a call failed.
C1_Witness ==
    /\ running /\ fresh
    /\ Ingest /\ ~ret.success
    /\ Len(image_paths) = 2
    /\ image_paths[1] # image_paths[2]

\* C2: load_index on two artifacts that both parse but disagree on the count
\* gives an empty store.
C2_MismatchLoadsEmpty ==
    (Loaded /\ BothParse
       /\ read_index(index_file.bytes).ntotal
            # Len(pickle_load(metadata_file.bytes))) =>
        (index.ntotal = 0 /\ image_paths = <<>>)

\* C3: after every completed operation of a process the store holds as many
\* identifiers as vectors.
C3_AlwaysAligned == running => Len(image_paths) = index.ntotal

\* C4: a process started on the artifacts a save wrote without error holds
\* the store that was saved: same count, same identifiers in order, same
\* vectors in order.
C4_RoundTrip ==
    (Loaded /\ last_saved.whole) =>
        /\ index.ntotal = last_saved.index.ntotal
        /\ image_paths = last_saved.image_paths
        /\ index.xb = last_saved.index.xb
        /\ index.d = last_saved.index.d

\* A saved store of two different images was loaded by a later process.
C4_Witness ==
    /\ Loaded /\ last_saved.whole
    /\ Len(image_paths) = 2
    /\ image_paths[1] # image_paths[2]
    /\ index.xb[1] # index.xb[2]

\* C5: load_index returns to its caller, and when an artifact is missing or
\* cannot be read the store is the new empty one.
C5_LoadFallsBackToEmpty ==
    Loaded =>
        /\ ~ret.raised
        /\ ~BothParse => (index = NewIndex /\ image_paths = <<>>)

\* The index artifact was read (it holds a vector) and the metadata artifact
\* could not be.
C5_Witness ==
    /\ Loaded
    /\ index_file.exists /\ can_read_index(index_file.bytes)
    /\ read_index(index_file.bytes).ntotal > 0
    /\ metadata_file.exists /\ ~can_pickle_load(metadata_file.bytes)

SaveFailed == "Error saving index" \in ret.log
OcrFailed == "Error extracting OCR" \in ret.log

\* C6: a process_image call that returns success = false leaves the index,
\* image_paths and both artifacts as they were, and its dictionary carries
\* the path and an error description.
C6_FailedIngestChangesNothing ==
    [][(ret'.op = "process_image" /\ ~ret'.success) =>
          /\ UNCHANGED <<index, image_paths, index_file, metadata_file>>
          /\ ret'.filepath \in Paths
          /\ ret'.error # ""]_vars

\* The embedding failed on a store that holds a vector and has artifacts.
C6_Witness ==
    /\ Ingest /\ ~ret.success
    /\ ret.error = "embedding failed"
    /\ index.ntotal > 0
    /\ index_file.exists /\ metadata_file.exists

\* C7: an encoder failure during search_images on a non-empty store reaches
\* the caller as an error.
C7_EncoderFailureRaised ==
    (ret.op = "search" /\ "Error encoding text query" \in ret.log) =>
        ret.raised

\* C8: a process_image call whose save fails (at either artifact) returns
\* success = true and keeps the add: one more vector, one more path, the
\* path of the call with its embedding in the last slot.
C8_SaveFailureKeepsAdd ==
    [][(ret'.op = "process_image" /\ "Error saving index" \in ret'.log) =>
          /\ ret'.success
          /\ index'.ntotal = index.ntotal + 1
          /\ index'.xb = Append(index.xb, Features(ret'.filepath))
          /\ image_paths' = Append(image_paths, ret'.filepath)]_vars

\* A search returns a path whose add is in memory only: the artifacts do not
\* hold the store, and the path is the last of image_paths and no other.
C8_Witness ==
    /\ ret.op = "search"
    /\ Len(image_paths) = index.ntotal
    /\ Len(image_paths) >= 2
    /\ \A i \in 1..(Len(image_paths) - 1) :
           image_paths[i] # image_paths[Len(image_paths)]
    /\ <<OnDisk.index, OnDisk.image_paths>> # store
    /\ \E i \in 1..Len(ret.results) :
           ret.results[i].filepath = image_paths[Len(image_paths)]

\* C9: when process_image returns success = true and its save logged no
\* error, the artifacts hold the store in memory; and while no save has
\* failed, a starting process loads the identifiers ingested with success so
\* far, in order, each with its vector.
C9_DurableIngest ==
    /\ (Ingest /\ ret.success /\ ~SaveFailed) =>
           /\ BothParse
           /\ OnDisk.index = index
           /\ OnDisk.image_paths = image_paths
    /\ (Loaded /\ faults = 0) =>
           /\ image_paths = ingested
           /\ index.ntotal = Len(ingested)
           /\ \A i \in 1..Len(ingested) : index.xb[i] = Features(ingested[i])

\* Two ingests of different images, no failed save, then a new process.
C9_Witness ==
    /\ Loaded /\ faults = 0
    /\ Len(ingested) = 2
    /\ ingested[1] # ingested[2]

\* C10: when the text extraction fails in a process_image call whose
\* embedding has the index's dimension, the call returns success = true with
\* no text, the vector and the path are appended and save_index is run (the
\* artifacts hold the store unless a write failed).
C10_OcrFailureNotFatal ==
    [][(ret'.op = "process_image" /\ "Error extracting OCR" \in ret'.log
          /\ ret'.error # "add failed") =>
          /\ ret'.success
          /\ ret'.ocr_text = None
          /\ index'.ntotal = index.ntotal + 1
          /\ index'.xb = Append(index.xb, Features(ret'.filepath))
          /\ image_paths' = Append(image_paths, ret'.filepath)
          /\ ret'.log \cap {"Saved index", "Error saving index"} # {}
          /\ "Saved index" \in ret'.log =>
                 /\ index_file' = File(write_index(index'))
                 /\ metadata_file' = File(pickle_dump(image_paths'))]_vars

\* The text extraction failed and the image was stored and saved.
C10_Witness ==
    /\ Ingest /\ OcrFailed /\ ret.success
    /\ "Saved index" \in ret.log
    /\ Len(image_paths) = 2

Search == ret.op = "search"

\* The search got as far as index.search.
SearchRan == Search /\ index.ntotal > 0 /\ call.enc = "ok"

\* What index.search returned to the last search, for an order of ties.
Hits(ties) ==
    index_search(index, Features(ret.filepath),
                 Min(call.top_k, index.ntotal), ties)

Aligned == index.ntotal = Len(image_paths)

\* C11: search_images on an index of no vectors returns the empty list for
\* every query and top_k, raises nothing, and has returned before the text
\* encoder is called (whatever the encoder would have done).
C11_EmptyStoreSearch ==
    (Search /\ index.ntotal = 0) =>
        /\ ret.results = <<>>
        /\ ~ret.raised
        /\ ret.log = {"No images in index"}

\* An empty store was searched with the largest top_k and an encoder that
\* would have raised.
C11_Witness ==
    /\ Search /\ index.ntotal = 0
    /\ call.enc = "raise"
    /\ call.top_k = MaxTopK

\* C12: no result of search_images has a similarity of 0.1 or less, and every
\* entry of the index search output above 0.1 whose slot has an identifier
\* is among the results.
C12_ThresholdFilter ==
    Search =>
        /\ \A i \in 1..Len(ret.results) :
               ret.results[i].similarity > Threshold
        /\ SearchRan => \E ties \in TieOrders :
               \A j \in 1..Len(Hits(ties)) :
                   (/\ Hits(ties)[j].similarity > Threshold
                    /\ Hits(ties)[j].idx < Len(image_paths)) =>
                       \E i \in 1..Len(ret.results) :
                           ret.results[i] =
                               [filepath |->
                                    image_paths[Hits(ties)[j].idx + 1],
                                similarity |-> Hits(ties)[j].similarity,
                                rank |-> j]

\* One entry was returned and one of similarity exactly 0.1 was not.
C12_Witness ==
    /\ SearchRan /\ Aligned
    /\ Len(ret.results) = 1
    /\ \E ties \in TieOrders : \E j \in 1..Len(Hits(ties)) :
           Hits(ties)[j].similarity = Threshold

\* C13: every result carries the identifier of the slot the index search
\* returned and, as its rank, the position of that entry in the index search
\* output; results keep the order of that output.
C13_RankIsSearchPosition ==
    SearchRan => \E ties \in TieOrders :
        /\ \A i \in 1..Len(ret.results) :
               LET r == ret.results[i]
               IN /\ r.rank \in 1..Len(Hits(ties))
                  /\ r.similarity = Hits(ties)[r.rank].similarity
                  /\ Hits(ties)[r.rank].idx < Len(image_paths)
                  /\ r.filepath = image_paths[Hits(ties)[r.rank].idx + 1]
        /\ \A i \in 1..(Len(ret.results) - 1) :
               ret.results[i].rank < ret.results[i + 1].rank

\* The only result has rank 2: the entry before it was dropped.
C13_Witness ==
    /\ SearchRan
    /\ Len(ret.results) = 1
    /\ ret.results[1].rank = 2

\* C15: a process_image call whose embedding has a length other than 512
\* fails, on a store created new or loaded, and leaves the index and
\* image_paths as they were.
C15_WrongLengthRejected ==
    [][(ret'.op = "process_image" /\ call'.enc = "short") =>
          /\ index.d = D
          /\ ~ret'.success
          /\ ret'.error = "add failed"
          /\ index' = index
          /\ image_paths' = image_paths]_vars

\* A wrong-length embedding was refused by a store that was loaded.
C15_Witness ==
    /\ Ingest /\ call.enc = "short" /\ ~ret.success
    /\ ~fresh
    /\ index.ntotal > 0

\* Prefix order on sequences.
IsPrefix(s, t) == Len(s) <= Len(t) /\ s = SubSeq(t, 1, Len(s))

\* C16: while a process runs, every step leaves image_paths and the vectors
\* a prefix of what they become: entries are appended, none is removed,
\* moved or replaced.
C16_AppendOnly ==
    [][(running /\ running') =>
          /\ IsPrefix(image_paths, image_paths')
          /\ IsPrefix(index.xb, index'.xb)
          /\ index'.ntotal >= index.ntotal
          /\ index'.d = index.d]_vars

\* A process that loaded a store appended to it.
C16_Witness ==
    /\ Ingest /\ ret.success
    /\ ~fresh
    /\ Len(image_paths) = 2
    /\ index.ntotal = 2

\* C18: search_images leaves the index, image_paths and both artifacts as
\* they are, whatever it returns; load_index writes no artifact; an
\* artifact, or the store of a running process, changes in process_image
\* only.
C18_OnlyIngestWrites ==
    [][/\ ret'.op = "search" =>
              UNCHANGED <<index, image_paths, index_file, metadata_file>>
       /\ ret'.op = "load_index" => UNCHANGED <<index_file, metadata_file>>
       /\ <<index_file, metadata_file>>' # <<index_file, metadata_file>> =>
              ret'.op = "process_image"
       /\ (running /\ running' /\ store' # store) =>
              ret'.op = "process_image"]_vars

\* A search that failed inside (the encoder raised) on a stored image.
C18_Witness ==
    /\ Search /\ call.enc = "raise"
    /\ index.ntotal > 0
    /\ index_file.exists /\ metadata_file.exists

\* C19: on an aligned store the results of search_images have the ranks
\* 1, 2, ..., m.
C19_NoRankGapWhenAligned ==
    (SearchRan /\ Aligned) =>
        \A i \in 1..Len(ret.results) : ret.results[i].rank = i

\* Two entries were found on an aligned store and the second was dropped.
C19_Witness ==
    /\ SearchRan /\ Aligned
    /\ index.ntotal = 2 /\ call.top_k = 2
    /\ Len(ret.results) = 1

\* C17: when the ingests of two processes have both returned success (and
\* no write failed), the artifacts hold every identifier ingested so far,
\* those two among them, each in the slot of its own vector.
C17_BothIngestsPersisted ==
    (/\ Ingest /\ ret.success
     /\ peer.ret.op = "process_image" /\ peer.ret.success
     /\ faults = 0) =>
        /\ BothParse
        /\ Len(OnDisk.image_paths) = Len(ingested)
        /\ \A p \in {ret.filepath, peer.ret.filepath} :
               \E i \in 1..Len(OnDisk.image_paths) :
                   /\ OnDisk.image_paths[i] = p
                   /\ i <= Len(OnDisk.index.xb)
                   /\ OnDisk.index.xb[i] = Features(p)

====
